---- MODULE Spec2Model ----
(***************************************************************************)
(* Model of lambda_function.py: one invocation of lambda_handler, the      *)
(* weekly fraud-news digest job.  Texts are sequences of string tokens     *)
(* (str concatenation is \o); Python's None is the empty option <<>> and a *)
(* present value x is <<x>>.  The external services (secret store, search  *)
(* API, completion API, SES, LinkedIn) answer nondeterministically.        *)
(***************************************************************************)
EXTENDS Integers, Sequences, FiniteSets, TLC

\* Largest number of articles the search API answers with in the model.
MaxArticles == 3

None == <<>>
Some(x) == <<x>>

Min(a, b) == IF a <= b THEN a ELSE b

(***************************************************************************)
(* Credential bundle                                                       *)
(***************************************************************************)
RequiredKeys ==
    {"NEWS_API_KEY", "OPENAI_API_KEY", "SENDER_EMAIL", "RECIPIENT_EMAIL",
     "LINKEDIN_ACCESS_TOKEN", "LINKEDIN_AUTHOR_URN"}

\* The value the secret store holds under each key.
SecretValue ==
    [k \in RequiredKeys |->
        CASE k = "NEWS_API_KEY"          -> <<"news-key">>
          [] k = "OPENAI_API_KEY"        -> <<"openai-key">>
          [] k = "SENDER_EMAIL"          -> <<"sender@x">>
          [] k = "RECIPIENT_EMAIL"       -> <<"r1@x", ",", "r2@x">>
          [] k = "LINKEDIN_ACCESS_TOKEN" -> <<"li-token">>
          [] k = "LINKEDIN_AUTHOR_URN"   -> <<"urn:li:person:1">>]

\* json.loads(secret) of a secret string holding the keys in keys.
Bundle(keys) == [k \in keys |-> SecretValue[k]]

\* Answers of the secret store: a client error, or a secret string.
SecretStoreOutcomes ==
    {[ok |-> FALSE, keys |-> {}]} \cup
    {[ok |-> TRUE, keys |-> K] : K \in SUBSET RequiredKeys}

\* get_secrets(): re-raises a retrieval error, else the parsed bundle.
get_secrets(store) ==
    IF ~store.ok
      THEN [exc |-> "ClientError", value |-> Bundle({})]
      ELSE [exc |-> "", value |-> Bundle(store.keys)]

(***************************************************************************)
(* Search API                                                              *)
(***************************************************************************)
\* Article records the search API can answer with: description and content
\* are optional texts (None for JSON null, <<>> inside Some for "").
ArticlePool ==
    { [title |-> <<"A">>, url |-> <<"u1">>, source |-> [name |-> <<"srcA">>],
       description |-> Some(<<"descA">>), content |-> Some(<<"contA">>)],
      [title |-> <<"B", "b">>, url |-> <<"u2">>, source |-> [name |-> <<"srcB">>],
       description |-> None, content |-> Some(<<"contB">>)],
      [title |-> <<"C">>, url |-> <<"u3">>, source |-> [name |-> <<"srcC">>],
       description |-> Some(<<>>), content |-> None] }

RECURSIVE SeqsUpTo(_, _)
SeqsUpTo(S, n) ==
    IF n = 0 THEN {<<>>}
    ELSE LET shorter == SeqsUpTo(S, n - 1)
         IN  shorter \cup {Append(s, a) : s \in {t \in shorter : Len(t) = n - 1}, a \in S}

\* Answers of the search API: the request fails, a non-success status, or a
\* success status with an articles array.
SearchOutcomes ==
    {[kind |-> "exception", articles |-> <<>>],
     [kind |-> "non2xx", articles |-> <<>>]} \cup
    {[kind |-> "2xx", articles |-> s] : s \in SeqsUpTo(ArticlePool, MaxArticles)}

get_fraud_news_no_raise(api_key, http) ==
    IF http.kind = "exception"
      THEN [exc |-> "RequestException", value |-> <<>>]
      ELSE [exc |-> "", value |-> http.articles]

\* get_fraud_news(api_key): requests.get, raise_for_status, the articles.
get_fraud_news(api_key, http) ==
    IF http.kind = "exception"
      THEN [exc |-> "RequestException", value |-> <<>>]
    ELSE IF http.kind = "non2xx"
      THEN [exc |-> "HTTPError", value |-> <<>>]
    ELSE [exc |-> "", value |-> http.articles]

(***************************************************************************)
(* Summarizer                                                              *)
(***************************************************************************)
NoDescription == <<"(No description available to summarize)">>
SummaryFailed == <<"(AI summary failed to generate)">>

IsSpace(tok) == tok = " "

\* str.strip(): drops leading and trailing whitespace.
RECURSIVE LStrip(_)
LStrip(s) == IF s # <<>> /\ IsSpace(Head(s)) THEN LStrip(Tail(s)) ELSE s

RECURSIVE RStrip(_)
RStrip(s) ==
    IF s # <<>> /\ IsSpace(s[Len(s)]) THEN RStrip(SubSeq(s, 1, Len(s) - 1)) ELSE s

Strip(s) == RStrip(LStrip(s))

\* Message contents the completion API can answer with.
CompletionTexts ==
    { <<"sum1">>, <<" ", "sum2", " ", "x", " ">> }

\* Answers of the completion API: an error, or a completion.
CompletionOutcomes ==
    {[ok |-> FALSE, content |-> <<>>]} \cup
    {[ok |-> TRUE, content |-> c] : c \in CompletionTexts}

\* Python truthiness of an optional text: None and "" are falsy.
Truthy(opt) == opt # None /\ opt[1] # <<>>

\* article.get('description') or article.get('content', '')
TextToSummarize(article) ==
    IF Truthy(article.description) THEN article.description ELSE article.content

summarize_text_with_openai_raises(text_to_summarize, api) ==
    IF ~Truthy(text_to_summarize)
      THEN [exc |-> "", value |-> NoDescription]
    ELSE IF api.ok
      THEN [exc |-> "", value |-> Strip(api.content)]
    ELSE [exc |-> "APIError", value |-> SummaryFailed]

summarize_text_with_openai_no_placeholder(text_to_summarize, api) ==
    IF ~Truthy(text_to_summarize)
      THEN [exc |-> "", value |-> NoDescription]
    ELSE IF api.ok
      THEN [exc |-> "", value |-> Strip(api.content)]
    ELSE [exc |-> "", value |-> NoDescription]

\* summarize_text_with_openai(text_to_summarize, openai_client)
summarize_text_with_openai(text_to_summarize, api) ==
    IF ~Truthy(text_to_summarize)
      THEN [exc |-> "", value |-> NoDescription]
    ELSE IF api.ok
      THEN [exc |-> "", value |-> Strip(api.content)]
    ELSE [exc |-> "", value |-> SummaryFailed]

(***************************************************************************)
(* Digest formatter                                                        *)
(***************************************************************************)
NoNews == <<"No significant fraud news found this week.">>

HtmlHead ==
    "\n    <html><head></head><body style=\"font-family: Arial, sans-serif; line-height: 1.6;\">\n        <h2>Weekly Fraud & Security News Digest</h2>\n        <p>Here are the top stories from the past week:</p>"
BlockOpen == "<hr><p><strong><a href=\""
HrefClose == "\" target=\"_blank\">"
TitleClose == "</a></strong><br><small>Source: "
SourceClose == "</small><br><em>"
BlockClose == "</em></p>"
HtmlTail == "<br><p><em>Automated digest by EV&GiVi.</em></p></body></html>"

HtmlBlock(article) ==
    <<BlockOpen>> \o article.url \o <<HrefClose>> \o article.title
        \o <<TitleClose>> \o article.source \o <<SourceClose>>
        \o article.ai_summary \o <<BlockClose>>

RECURSIVE HtmlBlocks(_)
HtmlBlocks(articles) ==
    IF articles = <<>> THEN <<>>
    ELSE HtmlBlock(Head(articles)) \o HtmlBlocks(Tail(articles))

RECURSIVE HtmlBlocksReversed(_)
HtmlBlocksReversed(articles) ==
    IF articles = <<>> THEN <<>>
    ELSE HtmlBlocksReversed(Tail(articles)) \o HtmlBlock(Head(articles))

format_digest_for_email_reversed(articles) ==
    IF articles = <<>> THEN NoNews
    ELSE <<HtmlHead>> \o HtmlBlocksReversed(articles) \o <<HtmlTail>>

format_digest_for_email_empty_shell(articles) ==
    <<HtmlHead>> \o HtmlBlocks(articles) \o <<HtmlTail>>

\* format_digest_for_email(articles)
format_digest_for_email(articles) ==
    IF articles = <<>> THEN NoNews
    ELSE <<HtmlHead>> \o HtmlBlocks(articles) \o <<HtmlTail>>

PostIntro == "This week's top fraud & security updates:\n\n"
Arrow == "\\u27a1\\ufe0f "
Hashtags == "#FraudPrevention #CyberSecurity #Fintech #RiskManagement #SecurityNews"

PostBlock(article) ==
    <<Arrow>> \o article.title \o <<"\n">> \o article.url \o <<"\n\n">>

RECURSIVE PostBlocks(_)
PostBlocks(articles) ==
    IF articles = <<>> THEN <<>>
    ELSE PostBlock(Head(articles)) \o PostBlocks(Tail(articles))

\* articles[:n]
Take(articles, n) == SubSeq(articles, 1, Min(n, Len(articles)))

format_digest_for_linkedin_top_three(articles) ==
    IF articles = <<>> THEN None
    ELSE Some(<<PostIntro>> \o PostBlocks(Take(articles, 3)) \o <<Hashtags>>)

\* format_digest_for_linkedin(articles)
format_digest_for_linkedin(articles) ==
    IF articles = <<>> THEN None
    ELSE Some(<<PostIntro>> \o PostBlocks(Take(articles, 2)) \o <<Hashtags>>)

(***************************************************************************)
(* Dispatcher                                                              *)
(***************************************************************************)
\* str.split(','): the pieces between the separators.
RECURSIVE SplitFrom(_, _, _)
SplitFrom(s, sep, piece) ==
    IF s = <<>> THEN <<piece>>
    ELSE IF Head(s) = sep THEN <<piece>> \o SplitFrom(Tail(s), sep, <<>>)
    ELSE SplitFrom(Tail(s), sep, Append(piece, Head(s)))

Split(s, sep) == SplitFrom(s, sep, <<>>)

\* Answers of the email transport.
SesOutcomes == {"sent", "error"}

send_email_raises(html_body, secrets, ses) ==
    IF "RECIPIENT_EMAIL" \notin DOMAIN secrets \/ "SENDER_EMAIL" \notin DOMAIN secrets
      THEN [exc |-> "KeyError", requests |-> <<>>]
      ELSE [exc |-> IF ses = "error" THEN "ClientError" ELSE "",
            requests |-> <<[Source |-> secrets["SENDER_EMAIL"],
                            ToAddresses |-> Split(secrets["RECIPIENT_EMAIL"], ","),
                            Html |-> html_body,
                            outcome |-> ses]>>]

\* send_email(html_body, secrets): an SES error is caught and logged.
send_email(html_body, secrets, ses) ==
    IF "RECIPIENT_EMAIL" \notin DOMAIN secrets \/ "SENDER_EMAIL" \notin DOMAIN secrets
      THEN [exc |-> "KeyError", requests |-> <<>>]
      ELSE [exc |-> "",
            requests |-> <<[Source |-> secrets["SENDER_EMAIL"],
                            ToAddresses |-> Split(secrets["RECIPIENT_EMAIL"], ","),
                            Html |-> html_body,
                            outcome |-> ses]>>]

\* Answers of the social transport.
LinkedInOutcomes == {"2xx", "non2xx", "exception"}

\* post_to_linkedin(post_text, secrets): nothing catches a failing request.
post_to_linkedin(post_text, secrets, http) ==
    IF ~Truthy(post_text)
      THEN [exc |-> "", requests |-> <<>>]
    ELSE IF "LINKEDIN_ACCESS_TOKEN" \notin DOMAIN secrets
            \/ "LINKEDIN_AUTHOR_URN" \notin DOMAIN secrets
      THEN [exc |-> "KeyError", requests |-> <<>>]
    ELSE [exc |-> IF http = "exception" THEN "RequestException" ELSE "",
          requests |-> <<[author |-> secrets["LINKEDIN_AUTHOR_URN"],
                          token |-> secrets["LINKEDIN_ACCESS_TOKEN"],
                          text |-> post_text[1],
                          outcome |-> http]>>]

(***************************************************************************)
(* lambda_handler                                                          *)
(***************************************************************************)
VARIABLES
    pc,                  \* position in lambda_handler
    secrets,             \* the credential bundle
    openai_client,       \* TRUE once the OpenAI client is constructed
    raw_articles,        \* the articles the news fetcher returned
    processed_articles,  \* the articles with their AI summaries
    email_html,          \* the formatted email body
    linkedin_text,       \* the formatted social post (an option)
    result,              \* the returned statusCode, 0 before the return
    abort_at,            \* the step whose exception the handler re-raised
    abort_exc,           \* that exception
    store_response,      \* what the secret store answered (an option)
    search_responses,    \* what the search API answered, per request
    completion_calls,    \* per processed article, the completion call made
    email_requests,      \* requests handed to the email transport
    post_calls,          \* the post_text of each post_to_linkedin call
    linkedin_requests    \* requests handed to the social transport

vars ==
    <<pc, secrets, openai_client, raw_articles, processed_articles, email_html,
      linkedin_text, result, abort_at, abort_exc, store_response,
      search_responses, completion_calls, email_requests, post_calls,
      linkedin_requests>>

env_vars ==
    <<store_response, search_responses, completion_calls, email_requests,
      post_calls, linkedin_requests>>

local_vars ==
    <<secrets, openai_client, raw_articles, processed_articles, email_html,
      linkedin_text>>

Init ==
    /\ pc = "get_secrets"
    /\ secrets = Bundle({})
    /\ openai_client = FALSE
    /\ raw_articles = <<>>
    /\ processed_articles = <<>>
    /\ email_html = <<>>
    /\ linkedin_text = None
    /\ result = 0
    /\ abort_at = ""
    /\ abort_exc = ""
    /\ store_response = None
    /\ search_responses = <<>>
    /\ completion_calls = <<>>
    /\ email_requests = <<>>
    /\ post_calls = <<>>
    /\ linkedin_requests = <<>>

\* except Exception as e: print(...); raise e
Reraise(at, exc) ==
    /\ pc' = "aborted"
    /\ abort_at' = at
    /\ abort_exc' = exc
    /\ result' = result

Continue(next) ==
    /\ pc' = next
    /\ UNCHANGED <<abort_at, abort_exc, result>>

\* secrets = get_secrets()
LoadSecrets ==
    /\ pc = "get_secrets"
    /\ \E store \in SecretStoreOutcomes :
          LET r == get_secrets(store) IN
          /\ store_response' = Some(store)
          /\ IF r.exc # ""
               THEN Reraise("get_secrets", r.exc) /\ secrets' = secrets
               ELSE Continue("openai_client") /\ secrets' = r.value
    /\ UNCHANGED <<openai_client, raw_articles, processed_articles, email_html,
                   linkedin_text, search_responses, completion_calls,
                   email_requests, post_calls, linkedin_requests>>

\* openai_client = OpenAI(api_key=secrets['OPENAI_API_KEY'])
CreateOpenAIClient ==
    /\ pc = "openai_client"
    /\ IF "OPENAI_API_KEY" \notin DOMAIN secrets
         THEN Reraise("openai_client", "KeyError") /\ openai_client' = openai_client
         ELSE Continue("check_emails") /\ openai_client' = TRUE
    /\ UNCHANGED <<secrets, raw_articles, processed_articles, email_html,
                   linkedin_text>>
    /\ UNCHANGED env_vars

MissingEmailKeys_sender_only(bundle) ==
    "SENDER_EMAIL" \notin DOMAIN bundle

\* 'SENDER_EMAIL' not in secrets or 'RECIPIENT_EMAIL' not in secrets
MissingEmailKeys(bundle) ==
    "SENDER_EMAIL" \notin DOMAIN bundle \/ "RECIPIENT_EMAIL" \notin DOMAIN bundle

\* if ...: raise ValueError(...)
CheckEmailKeys ==
    /\ pc = "check_emails"
    /\ IF MissingEmailKeys(secrets)
         THEN Reraise("check_emails", "ValueError")
         ELSE Continue("get_fraud_news")
    /\ UNCHANGED local_vars
    /\ UNCHANGED env_vars

\* raw_articles = get_fraud_news(secrets['NEWS_API_KEY'])
FetchNews ==
    /\ pc = "get_fraud_news"
    /\ IF "NEWS_API_KEY" \notin DOMAIN secrets
         THEN /\ Reraise("get_fraud_news", "KeyError")
              /\ UNCHANGED <<raw_articles, search_responses>>
         ELSE \E http \in SearchOutcomes :
                LET r == get_fraud_news(secrets["NEWS_API_KEY"], http) IN
                /\ search_responses' = Append(search_responses, http)
                /\ IF r.exc # ""
                     THEN Reraise("get_fraud_news", r.exc)
                          /\ raw_articles' = raw_articles
                     ELSE Continue("summarize") /\ raw_articles' = r.value
    /\ UNCHANGED <<secrets, openai_client, processed_articles, email_html,
                   linkedin_text, store_response, completion_calls,
                   email_requests, post_calls, linkedin_requests>>

\* The completion API is only asked when there is text to summarize.
NoCall == [ok |-> FALSE, content |-> <<>>]

\* One iteration of: for article in raw_articles
SummarizeArticle ==
    /\ pc = "summarize"
    /\ Len(processed_articles) < Len(raw_articles)
    /\ LET article == raw_articles[Len(processed_articles) + 1]
           text_to_summarize == TextToSummarize(article)
           called == Truthy(text_to_summarize)
       IN  \E api \in (IF called THEN CompletionOutcomes ELSE {NoCall}) :
             LET r == summarize_text_with_openai(text_to_summarize, api) IN
             /\ completion_calls' =
                   Append(completion_calls,
                          [called |-> called, ok |-> api.ok, content |-> api.content])
             /\ IF r.exc # ""
                  THEN /\ Reraise("summarize", r.exc)
                       /\ processed_articles' = processed_articles
                  ELSE /\ Continue("summarize")
                       /\ processed_articles' =
                             Append(processed_articles,
                                    [title |-> article.title, url |-> article.url,
                                     source |-> article.source.name,
                                     ai_summary |-> r.value])
    /\ UNCHANGED <<secrets, openai_client, raw_articles, email_html,
                   linkedin_text, store_response, search_responses,
                   email_requests, post_calls, linkedin_requests>>

\* email_html = format_digest_for_email(...); send_email(email_html, secrets)
DeliverEmail ==
    /\ pc = "summarize"
    /\ Len(processed_articles) = Len(raw_articles)
    /\ email_html' = format_digest_for_email(processed_articles)
    /\ \E ses \in SesOutcomes :
          LET r == send_email(email_html', secrets, ses) IN
          /\ email_requests' = email_requests \o r.requests
          /\ IF r.exc # ""
               THEN Reraise("send_email", r.exc)
               ELSE Continue("post_to_linkedin")
    /\ UNCHANGED <<secrets, openai_client, raw_articles, processed_articles,
                   linkedin_text, store_response, search_responses,
                   completion_calls, post_calls, linkedin_requests>>

\* linkedin_text = format_digest_for_linkedin(...); post_to_linkedin(...);
\* return {'statusCode': 200, ...}
PostToLinkedIn ==
    /\ pc = "post_to_linkedin"
    /\ linkedin_text' = format_digest_for_linkedin(processed_articles)
    /\ post_calls' = Append(post_calls, linkedin_text')
    /\ \E http \in LinkedInOutcomes :
          LET r == post_to_linkedin(linkedin_text', secrets, http) IN
          /\ linkedin_requests' = linkedin_requests \o r.requests
          /\ IF r.exc # ""
               THEN Reraise("post_to_linkedin", r.exc)
               ELSE /\ pc' = "done"
                    /\ result' = 200
                    /\ UNCHANGED <<abort_at, abort_exc>>
    /\ UNCHANGED <<secrets, openai_client, raw_articles, processed_articles,
                   email_html, store_response, search_responses,
                   completion_calls, email_requests>>

Next ==
    \/ LoadSecrets
    \/ CreateOpenAIClient
    \/ CheckEmailKeys
    \/ FetchNews
    \/ SummarizeArticle
    \/ DeliverEmail
    \/ PostToLinkedIn

Spec == Init /\ [][Next]_vars

Terminated == pc \in {"done", "aborted"}

TypeOK ==
    /\ pc \in {"get_secrets", "openai_client", "check_emails", "get_fraud_news",
               "summarize", "post_to_linkedin", "done", "aborted"}
    /\ result \in {0, 200}
    /\ (result = 200) <=> (pc = "done")
    /\ Len(processed_articles) <= Len(raw_articles)
    /\ Len(raw_articles) <= MaxArticles

(***************************************************************************)
(* Reading the outputs back                                                *)
(***************************************************************************)
\* The first position at or after from where s holds tok, 0 if none.
IndexFrom(s, tok, from) ==
    LET hits == {i \in from..Len(s) : s[i] = tok}
    IN  IF from = 0 \/ hits = {} THEN 0
        ELSE CHOOSE i \in hits : \A j \in hits : i <= j

Count(s, tok) == Cardinality({i \in 1..Len(s) : s[i] = tok})

\* The article blocks of an HTML body, in the order they appear in it.
RECURSIVE ParseHtmlBlocks(_, _)
ParseHtmlBlocks(html, from) ==
    LET p == IndexFrom(html, BlockOpen, from)
        h == IndexFrom(html, HrefClose, p)
        t == IndexFrom(html, TitleClose, h)
        c == IndexFrom(html, SourceClose, t)
        e == IndexFrom(html, BlockClose, c)
    IN  IF e = 0 THEN <<>>
        ELSE <<[url |-> SubSeq(html, p + 1, h - 1),
                title |-> SubSeq(html, h + 1, t - 1),
                source |-> SubSeq(html, t + 1, c - 1),
                summary |-> SubSeq(html, c + 1, e - 1)]>>
             \o ParseHtmlBlocks(html, e + 1)

\* The article blocks of a social post text, in the order they appear in it.
RECURSIVE ParsePostBlocks(_, _)
ParsePostBlocks(text, from) ==
    LET p == IndexFrom(text, "\\u27a1\\ufe0f ", from)
        n == IndexFrom(text, "\n", p)
        e == IndexFrom(text, "\n\n", n)
    IN  IF e = 0 THEN <<>>
        ELSE <<[title |-> SubSeq(text, p + 1, n - 1),
                url |-> SubSeq(text, n + 1, e - 1)]>>
             \o ParsePostBlocks(text, e + 1)

RECURSIVE SumLen(_)
SumLen(blocks) ==
    IF blocks = <<>> THEN 0
    ELSE Len(Head(blocks).title) + Len(Head(blocks).url) + SumLen(Tail(blocks))

\* s is c without its leading and trailing whitespace.
StrippedOf(s, c) ==
    \E i \in 1..(Len(c) + 1) : \E j \in 0..Len(c) :
        /\ s = SubSeq(c, i, j)
        /\ \A k \in 1..Len(c) : (k < i \/ k > j) => c[k] = " "
        /\ s # <<>> => (s[1] # " " /\ s[Len(s)] # " ")

\* The articles the search API answered with on this run.
Fetched == search_responses[1].articles

FetchSucceeded == search_responses # <<>> /\ search_responses[1].kind = "2xx"

SecretsSucceeded == store_response # None /\ store_response[1].ok

SummaryCallFailed(j) == completion_calls[j].called /\ ~completion_calls[j].ok

SomeSummaryFailed == \E j \in DOMAIN completion_calls : SummaryCallFailed(j)

NoDeliveryAttempt ==
    email_requests = <<>> /\ post_calls = <<>> /\ linkedin_requests = <<>>

(***************************************************************************)
(* Properties                                                              *)
(***************************************************************************)
\* C1: a failing summarization call never aborts the invocation: the article
\* it failed on and every later one are still processed, and a run with such
\* a failure ends only after the email send and the social-post step.
C1_SummarizerFailureIsolated ==
    /\ Len(completion_calls) = Len(processed_articles)
    /\ abort_at # "summarize"
    /\ SomeSummaryFailed =>
          /\ pc \in {"summarize", "post_to_linkedin", "done", "aborted"}
          /\ pc \in {"post_to_linkedin", "done", "aborted"} =>
                /\ Len(processed_articles) = Len(Fetched)
                /\ Len(email_requests) = 1
          /\ Terminated => Len(post_calls) = 1

C1_Witness ==
    /\ pc = "done"
    /\ \E j \in DOMAIN completion_calls : \E k \in DOMAIN completion_calls :
          j < k /\ SummaryCallFailed(j) /\ completion_calls[k].ok
    /\ email_requests # <<>>
    /\ linkedin_requests # <<>>

\* C2: a failed social post (non-2xx response or failing request) still ends
\* the invocation succeeded with status 200; only secret-loader failures
\* (retrieval error, missing key) and news-fetcher failures abort.
C2_SocialFailureContained ==
    /\ \A k \in DOMAIN linkedin_requests :
          linkedin_requests[k].outcome \in {"non2xx", "exception"} =>
              pc = "done" /\ result = 200
    /\ pc = "aborted" =>
          \/ abort_at \in {"get_secrets", "get_fraud_news"}
          \/ abort_exc \in {"KeyError", "ValueError"}

\* C3: a failing email send is caught: the social-post step runs next, with
\* the formatted post text, and the invocation is not aborted by send_email.
C3_EmailFailureContained ==
    \A k \in DOMAIN email_requests :
        email_requests[k].outcome = "error" =>
            /\ pc \in {"post_to_linkedin", "done", "aborted"}
            /\ abort_at # "send_email"
            /\ Terminated =>
                  post_calls = <<format_digest_for_linkedin(processed_articles)>>

C3_Witness ==
    /\ pc = "done"
    /\ email_requests # <<>> /\ email_requests[1].outcome = "error"
    /\ linkedin_requests # <<>>

\* C4: with SENDER_EMAIL or RECIPIENT_EMAIL missing from the bundle the
\* invocation can only abort, and no request reaches the search API, the
\* email transport or the social transport.
C4_MissingEmailKeysAbortEarly ==
    (SecretsSucceeded
        /\ ~({"SENDER_EMAIL", "RECIPIENT_EMAIL"} \subseteq store_response[1].keys))
    => /\ pc \in {"openai_client", "check_emails", "aborted"}
       /\ search_responses = <<>>
       /\ email_requests = <<>>
       /\ linkedin_requests = <<>>

C4_Witness ==
    /\ pc = "aborted"
    /\ abort_at = "check_emails"
    /\ SecretsSucceeded
    /\ "SENDER_EMAIL" \in store_response[1].keys
    /\ "RECIPIENT_EMAIL" \notin store_response[1].keys
    /\ "NEWS_API_KEY" \in store_response[1].keys

\* C5: an invocation whose bundle lacks any of the six required keys never
\* ends succeeded, whatever the search API returns.
C5_MissingKeyAborts ==
    (SecretsSucceeded /\ store_response[1].keys # RequiredKeys) => pc # "done"

\* C6: when the search API returns zero articles the email is sent with the
\* body "No significant fraud news found this week.", the social formatter
\* returns null and nothing is sent to the social transport.
C6_EmptyDigest ==
    (FetchSucceeded /\ Fetched = <<>>) =>
        /\ pc \in {"summarize", "post_to_linkedin", "done"}
        /\ pc \in {"post_to_linkedin", "done"} =>
              /\ Len(email_requests) = 1
              /\ email_requests[1].Html
                    = <<"No significant fraud news found this week.">>
        /\ pc = "done" => post_calls = <<None>>
        /\ linkedin_requests = <<>>

C6_Witness ==
    /\ pc = "done"
    /\ FetchSucceeded /\ Fetched = <<>>
    /\ email_requests # <<>>
    /\ post_calls # <<>>

\* C7: for a non-empty search result the HTML email body holds exactly one
\* block per article, the k-th block showing the k-th fetched article with
\* the summary computed for it, also when summaries failed.
C7_HtmlOrderPreserved ==
    \A r \in DOMAIN email_requests :
        Fetched # <<>> =>
            LET body == email_requests[r].Html
                blocks == ParseHtmlBlocks(body, 1)
            IN  /\ Count(body, BlockOpen) = Len(Fetched)
                /\ Len(blocks) = Len(Fetched)
                /\ \A k \in DOMAIN blocks :
                      /\ blocks[k].title = Fetched[k].title
                      /\ blocks[k].url = Fetched[k].url
                      /\ blocks[k].source = Fetched[k].source.name
                      /\ blocks[k].summary = processed_articles[k].ai_summary

C7_Witness ==
    /\ email_requests # <<>>
    /\ Len(Fetched) >= 2
    /\ Fetched[1].title # Fetched[2].title
    /\ SomeSummaryFailed

\* C8: for n >= 1 articles the social post text is the intro, then exactly
\* min(n, 2) blocks showing the first articles in order with title and URL,
\* then the hashtag line, and nothing else.
C8_PostTopTwo ==
    \A c \in DOMAIN post_calls :
        Fetched # <<>> =>
            /\ post_calls[c] # None
            /\ LET text == post_calls[c][1]
                   blocks == ParsePostBlocks(text, 1)
               IN  /\ Len(blocks) = Min(Len(Fetched), 2)
                   /\ \A k \in DOMAIN blocks :
                         /\ blocks[k].title = Fetched[k].title
                         /\ blocks[k].url = Fetched[k].url
                   /\ text[1] = "This week's top fraud & security updates:\n\n"
                   /\ text[Len(text)]
                         = "#FraudPrevention #CyberSecurity #Fintech #RiskManagement #SecurityNews"
                   /\ Len(text) = 2 + 3 * Len(blocks) + SumLen(blocks)

C8_Witness ==
    /\ post_calls # <<>>
    /\ Len(Fetched) >= 3
    /\ Fetched[1] # Fetched[3]
    /\ Fetched[2] # Fetched[3]

\* C9: an article whose summarization call raised carries the placeholder
\* "(AI summary failed to generate)"; an article whose call succeeded carries
\* the text its own call returned (without surrounding whitespace).
C9_PlaceholderOnFailure ==
    \A j \in DOMAIN processed_articles :
        /\ SummaryCallFailed(j) =>
              processed_articles[j].ai_summary = <<"(AI summary failed to generate)">>
        /\ (completion_calls[j].called /\ completion_calls[j].ok) =>
              StrippedOf(processed_articles[j].ai_summary, completion_calls[j].content)

C9_Witness ==
    \E j \in DOMAIN processed_articles : \E k \in DOMAIN processed_articles :
        /\ j # k
        /\ SummaryCallFailed(j)
        /\ completion_calls[k].called /\ completion_calls[k].ok
        /\ processed_articles[k].ai_summary # completion_calls[k].content

\* C10: an email send or a social post is attempted only after the secret
\* load and the news fetch succeeded and every fetched article is processed;
\* a run aborted by the secret loader or the news fetcher delivered nothing.
C10_DeliveryAfterPipeline ==
    /\ ~NoDeliveryAttempt =>
          /\ SecretsSucceeded
          /\ Len(search_responses) = 1
          /\ FetchSucceeded
          /\ Len(processed_articles) = Len(Fetched)
    /\ (pc = "aborted" /\ abort_at \in {"get_secrets", "openai_client",
                                        "check_emails", "get_fraud_news"})
          => NoDeliveryAttempt

C10_Witness ==
    /\ pc = "done"
    /\ email_requests # <<>>
    /\ linkedin_requests # <<>>
    /\ Len(processed_articles) >= 2

====
